---------------------------- MODULE Spec2Model ----------------------------
(***************************************************************************)
(* A model of the block manager of osmem.c: the two sentinel lists of      *)
(* in-band headers, the heap manager (preallocation, coalescing, split,    *)
(* best fit, tail extension), the mapped-region manager and the four       *)
(* public primitives os_malloc, os_free, os_calloc and os_realloc.         *)
(*                                                                         *)
(* Memory is modelled as the function mem from the address of a header to  *)
(* the four fields of the header stored there.  Addresses and sizes are    *)
(* the integers of the program (bytes).  Every store to a header field is  *)
(* logged in the field wr of the threaded state, so that a property can    *)
(* ask whether an operation wrote a header inside a payload.               *)
(***************************************************************************)
EXTENDS Integers, Sequences, FiniteSets, TLC

(* ------------------------------------------------------------------ *)
(* Program constants.                                                   *)
(* ------------------------------------------------------------------ *)

\* #define BRK_LIMIT (128 * 1024)
BRK_LIMIT == 128 * 1024

\* #define ALIGNMENT 8
ALIGNMENT == 8

\* SIZE_ALIGN(sizeof(TBlock_meta)): size_t, int, two pointers on LP64.
META_DATA_SIZE == 32

\* The status values of block_meta.h.
STATUS_FREE == 0
STATUS_ALLOC == 1
STATUS_MAPPED == 2

\* The cap os_calloc puts on the page size (getpagesize() is 4096).
PAGE_CAP == 4080
PageSize == 4096

NULL == 0

\* The addresses of the two global sentinels (data segment, below the heap).
block_head_brk == 64
block_head_mmap == 128

(* ------------------------------------------------------------------ *)
(* The environment: where the kernel puts the break and the mappings.   *)
(* ------------------------------------------------------------------ *)

\* The initial program break.
HeapStart == 8 * 1024

\* Mappings are placed in slots far above the heap.
MapBase == 8 * 1024 * 1024
MapStride == 512 * 1024

(* ------------------------------------------------------------------ *)
(* Bounds of the model.                                                 *)
(* ------------------------------------------------------------------ *)

\* The number of public operations of a run.
MaxOps == 3
\* The number of simultaneously live allocations.
MaxLive == 2
\* The number of free address slots, lowest first, the kernel chooses the
\* address of a new mapping from.
MapChoices == 2

\* The same for the runs on the heap alone, which are longer.
HeapOps == 5
HeapLive == 2

\* The sizes requested of os_malloc and os_realloc.
Sizes == {0, 5, 40, 131010, 131040, 131071, 131072, 200000}
\* The (nmemb, size) pairs requested of os_calloc.
CallocArgs == {<<0, 8>>, <<3, 8>>, <<510, 8>>}

\* The sizes requested in the runs on the heap alone: of os_malloc, and of
\* os_realloc to cut a block down.
HeapSizes == {5, 40, 131000, 131040}
CutSizes == {5, 40}

Min(a, b) == IF a < b THEN a ELSE b
Max(a, b) == IF a > b THEN a ELSE b

(* ------------------------------------------------------------------ *)
(* Alignment.                                                           *)
(* ------------------------------------------------------------------ *)

\* A faulty variant of SIZE_ALIGN: no rounding.
SIZE_ALIGN_noround(size) == size

\* (((size) + (ALIGNMENT - 1)) & ~(ALIGNMENT - 1)): clearing the low three
\* bits of size + 7.  In size_t arithmetic a negative argument stands for
\* the wrapped value 2^64 + size, whose low bits are those of size mod 8.
SIZE_ALIGN(size) == (size + (ALIGNMENT - 1)) - ((size + (ALIGNMENT - 1)) % ALIGNMENT)

(* ------------------------------------------------------------------ *)
(* The threaded state of an operation and its memory accesses.          *)
(*   mem   headers in memory          brk   the program break           *)
(*   maps  the live mappings          dmin  the least sbrk increment    *)
(*   wr    addresses of headers written                                 *)
(*   ret   the value returned         search  the statuses of the heap  *)
(*         list at the entries to search_best_fit                       *)
(*   copy  the calls of memcpy        zeroed  the ranges memset cleared *)
(*   over  a memcpy read past the pages of its source mapping           *)
(*   dead  the process was killed                                       *)
(*   npre  the calls of heap_preallocation                              *)
(*   pool  the heap list and the break heap_preallocation left          *)
(*   cand  the heap list and the break at the entry to search_best_fit  *)
(*   cut   the calls of use_unused_space; of the last, its arguments    *)
(*         and the heap list before and after                           *)
(* ------------------------------------------------------------------ *)

BlankCell == [size |-> 0, status |-> 0, next |-> NULL, prev |-> NULL]

\* No call of use_unused_space yet.
NoCut == [n |-> 0, addr |-> NULL, start |-> NULL, gap |-> 0, nodes |-> <<>>,
          after |-> <<>>]

\* *(a).f = v
Store(st, a, f, v) ==
    LET m == st.mem
        old == IF a \in DOMAIN m THEN m[a] ELSE BlankCell
        new == [old EXCEPT ![f] = v]
    IN [st EXCEPT !.mem = IF a \in DOMAIN m THEN [m EXCEPT ![a] = new] ELSE (a :> new) @@ m,
                  !.wr = @ \cup {a}]

\* sbrk(increment): increment is a size_t handed to an intptr_t parameter, so
\* a difference that wrapped below zero moves the break down by that amount.
sbrk(st, increment) ==
    [st EXCEPT !.brk = @ + increment, !.dmin = Min(@, increment)]

\* mmap(NULL, len, ...) returning addr, chosen by the kernel.
mmap(st, addr, len) ==
    [st EXCEPT !.maps = @ \cup {[addr |-> addr, len |-> len]}]

\* munmap(addr, len): the range leaves every mapping it meets; the headers
\* stored in it are gone.
munmap(st, addr, len) ==
    LET hit(mp) == mp.addr < addr + len /\ addr < mp.addr + mp.len
        below(mp) == IF mp.addr < addr
                     THEN {[addr |-> mp.addr, len |-> addr - mp.addr]} ELSE {}
        above(mp) == IF addr + len < mp.addr + mp.len
                     THEN {[addr |-> addr + len, len |-> mp.addr + mp.len - (addr + len)]}
                     ELSE {}
        m == st.mem
        gone == {a \in DOMAIN m : a >= addr /\ a < addr + len}
    IN [st EXCEPT !.maps = {mp \in @ : ~hit(mp)}
                          \cup UNION {below(mp) \cup above(mp) : mp \in {x \in @ : hit(x)}},
                  !.mem = [x \in (DOMAIN m) \ gone |-> m[x]]]


(* ------------------------------------------------------------------ *)
(* Every operation below is a function of the threaded state: an        *)
(* operator applied to the state its predecessor statement leaves, so   *)
(* that a statement reading what an earlier one wrote reads it through  *)
(* its parameter.                                                       *)
(* ------------------------------------------------------------------ *)

\* return v
Return(st, v) == [st EXCEPT !.ret = v]

\* cell->prev->next = cell->next
unlink_next(st, cell) == Store(st, st.mem[cell].prev, "next", st.mem[cell].next)

\* cell->next->prev = cell->prev
unlink_prev(st, cell) == Store(st, st.mem[cell].next, "prev", st.mem[cell].prev)

(* ------------------------------------------------------------------ *)
(* The mapped list.                                                     *)
(* ------------------------------------------------------------------ *)

init_list_mmap(st) ==
    Store(Store(Store(Store(st, block_head_mmap, "status", -1),
                      block_head_mmap, "size", 0),
                block_head_mmap, "next", block_head_mmap),
          block_head_mmap, "prev", block_head_mmap)

\* cell->status = STATUS_MAPPED; cell->size = SIZE_ALIGN(size);
mmap_cell_init(st, cell, size) ==
    Store(Store(st, cell, "status", STATUS_MAPPED), cell, "size", SIZE_ALIGN(size))

\* cell->next = &block_head_mmap; cell->prev = block_head_mmap.prev;
mmap_cell_link(st, cell) ==
    Store(Store(st, cell, "next", block_head_mmap),
          cell, "prev", st.mem[block_head_mmap].prev)

\* block_head_mmap.prev->next = cell; block_head_mmap.prev = cell;
mmap_head_link(st, cell) ==
    Store(Store(st, st.mem[block_head_mmap].prev, "next", cell),
          block_head_mmap, "prev", cell)

\* addr is the address mmap returns.
add_meta_cell_mmap(st, addr, size) ==
    Return(mmap_head_link(mmap_cell_link(mmap_cell_init(
               mmap(IF st.mem[block_head_mmap].size = 0 THEN init_list_mmap(st) ELSE st,
                    addr, META_DATA_SIZE + SIZE_ALIGN(size)),
               addr, size), addr), addr),
           addr + META_DATA_SIZE)

\* munmap((void *)cell, META_DATA_SIZE + cell->size)
munmap_cell(st, cell) == munmap(st, cell, META_DATA_SIZE + st.mem[cell].size)

\* A faulty variant of delete_meta_cell_mmap: the block is unlinked, not unmapped.
delete_meta_cell_mmap_leak(st, cell) == unlink_prev(unlink_next(st, cell), cell)

delete_meta_cell_mmap(st, cell) ==
    munmap_cell(unlink_prev(unlink_next(st, cell), cell), cell)

(* ------------------------------------------------------------------ *)
(* The heap list.                                                       *)
(* ------------------------------------------------------------------ *)

init_list_brk(st) ==
    Store(Store(Store(Store(st, block_head_brk, "status", -1),
                      block_head_brk, "size", 1),
                block_head_brk, "next", block_head_brk),
          block_head_brk, "prev", block_head_brk)

\* cell->status = status; cell->size = SIZE_ALIGN(size);
brk_cell_init(st, cell, size, status) ==
    Store(Store(st, cell, "status", status), cell, "size", SIZE_ALIGN(size))

\* cell->next = last_cell->next; cell->prev = last_cell;
brk_cell_link(st, last_cell, cell) ==
    Store(Store(st, cell, "next", st.mem[last_cell].next), cell, "prev", last_cell)

\* last_cell->next->prev = cell; last_cell->next = cell;
brk_last_link(st, last_cell, cell) ==
    Store(Store(st, st.mem[last_cell].next, "prev", cell), last_cell, "next", cell)

add_meta_cell_brk(st, last_cell, cell, size, status) ==
    Return(brk_last_link(brk_cell_link(brk_cell_init(st, cell, size, status),
                                       last_cell, cell),
                         last_cell, cell),
           cell + META_DATA_SIZE)

delete_meta_cell_brk(st, cell) == unlink_prev(unlink_next(st, cell), cell)

\* The cell just unlinked is installed again after its old predecessor, with
\* the aligned size: add_meta_cell_brk(cell->prev, cell, SIZE_ALIGN(size),
\* STATUS_ALLOC) in search_best_fit and increase_heap.
relink_alloc(st, cell, size) ==
    add_meta_cell_brk(st, st.mem[cell].prev, cell, SIZE_ALIGN(size), STATUS_ALLOC)

\* The heap list walked from the sentinel: the addresses of its nodes.
RECURSIVE list_from(_, _, _, _)
list_from(m, head, cell, fuel) ==
    IF cell = head \/ fuel = 0 \/ cell \notin DOMAIN m THEN <<>>
    ELSE <<cell>> \o list_from(m, head, m[cell].next, fuel - 1)

HeapList(m) ==
    IF m[block_head_brk].size = 0 THEN <<>>
    ELSE list_from(m, block_head_brk, m[block_head_brk].next, Cardinality(DOMAIN m))

\* The mapped list walked from its sentinel.
MappedList(m) ==
    list_from(m, block_head_mmap, m[block_head_mmap].next, Cardinality(DOMAIN m))

\* The statuses of the nodes, in list order.
StatusesOf(m, nodes) == [i \in 1..Len(nodes) |-> m[nodes[i]].status]
Statuses(m) == StatusesOf(m, HeapList(m))

\* The nodes of a heap list with their sizes and statuses.
NodesOf(m, nodes) ==
    [i \in 1..Len(nodes) |->
        [addr |-> nodes[i], size |-> m[nodes[i]].size, status |-> m[nodes[i]].status]]

\* The heap list and the break of a state.
HeapSnapOf(st) == [nodes |-> NodesOf(st.mem, HeapList(st.mem)), brk |-> st.brk]

\* sbrk(BRK_LIMIT) returns the old break, where the FREE block is put.
prealloc_block(st) ==
    add_meta_cell_brk(sbrk(st, BRK_LIMIT), block_head_brk, st.brk,
                      BRK_LIMIT - META_DATA_SIZE, STATUS_FREE)

\* The end of heap_preallocation, recorded: the call is counted and the heap
\* it leaves is kept.
prealloc_entry(st) == [st EXCEPT !.npre = @ + 1, !.pool = HeapSnapOf(st)]

heap_preallocation(st) == prealloc_entry(prealloc_block(init_list_brk(st)))

\* A faulty variant of coalesce_loop: the status of the cells is not looked at.
RECURSIVE coalesce_loop_anystatus(_, _)
coalesce_loop_anystatus(st, free_curr) ==
    IF free_curr # block_head_brk
    THEN coalesce_loop_anystatus(delete_meta_cell_brk(st, free_curr), st.mem[free_curr].next)
    ELSE <<st, free_curr>>

\* The while loop of coalesce_block: <<state, free_curr>> when it exits.
\* Unlinking free_curr leaves its own next field as it was.
RECURSIVE coalesce_loop(_, _)
coalesce_loop(st, free_curr) ==
    IF free_curr # block_head_brk /\ st.mem[free_curr].status = STATUS_FREE
    THEN coalesce_loop(delete_meta_cell_brk(st, free_curr), st.mem[free_curr].next)
    ELSE <<st, free_curr>>

\* A faulty variant of coalesce_resize: the header is not taken off the size.
coalesce_resize_nohdr(r, curr_cell) ==
    Store(Store(r[1], curr_cell, "next", r[2]),
          curr_cell, "size",
          (IF r[2] = block_head_brk THEN r[1].brk ELSE r[2]) - curr_cell)

\* A faulty variant of coalesce_resize: the size is not extended.
coalesce_resize_nosize(r, curr_cell) == Store(r[1], curr_cell, "next", r[2])

\* The end of coalesce_block, r the exit of its loop: the connection and the
\* size of curr_cell, which reaches to free_curr or to the break.
coalesce_resize(r, curr_cell) ==
    Store(Store(r[1], curr_cell, "next", r[2]),
          curr_cell, "size",
          (IF r[2] = block_head_brk THEN r[1].brk ELSE r[2]) - curr_cell - META_DATA_SIZE)

coalesce_block(st, curr_cell) ==
    coalesce_resize(coalesce_loop(st, st.mem[curr_cell].next), curr_cell)

\* The while loop of coalesce_blocks.
RECURSIVE coalesce_walk(_, _)
coalesce_next(st, curr_cell) == coalesce_walk(st, st.mem[curr_cell].next)

coalesce_walk(st, curr_cell) ==
    IF curr_cell = block_head_brk THEN st
    ELSE coalesce_next(IF st.mem[curr_cell].status = STATUS_FREE
                       THEN coalesce_block(st, curr_cell) ELSE st,
                       curr_cell)

\* A faulty variant of coalesce_blocks: nothing is coalesced.
coalesce_blocks_none(st) == st

coalesce_blocks(st) == coalesce_walk(st, st.mem[block_head_brk].next)

\* The limit of the unused space behind cell.
unused_stop(st, cell) ==
    IF st.mem[cell].next # block_head_brk THEN st.mem[cell].next ELSE st.brk

\* A faulty variant of split_unused: a gap of exactly one header is split too.
split_unused_eq(st, addr, start, stop) ==
    IF stop - start < 0 \/ stop - start >= META_DATA_SIZE
    THEN add_meta_cell_brk(st, addr, start, stop - start - META_DATA_SIZE, STATUS_FREE)
    ELSE st

\* A faulty variant of split_unused: a gap is split only when it exceeds
\* two headers.
split_unused_lazy(st, addr, start, stop) ==
    IF stop - start < 0 \/ stop - start > 2 * META_DATA_SIZE
    THEN add_meta_cell_brk(st, addr, start, stop - start - META_DATA_SIZE, STATUS_FREE)
    ELSE st

\* The split of use_unused_space, the unused space being [start, stop).
\* (size_t)(stop - start) > META_DATA_SIZE: a negative difference wraps to a
\* value above every header size.
split_unused(st, addr, start, stop) ==
    IF stop - start < 0 \/ stop - start > META_DATA_SIZE
    THEN add_meta_cell_brk(st, addr, start, stop - start - META_DATA_SIZE, STATUS_FREE)
    ELSE st

\* A faulty variant of use_unused_space: the unused space is taken to start
\* at the end of the used bytes counted from the header, not from the payload.
use_unused_space_nometa(st, addr, size_used) ==
    split_unused(st, addr, addr + SIZE_ALIGN(size_used), unused_stop(st, addr))

\* The entry to use_unused_space, recorded: the block, the unused space
\* [start, start + gap) behind it and the heap list.
cut_entry(st, addr, start, stop) ==
    [st EXCEPT !.cut = [n |-> @.n + 1, addr |-> addr, start |-> start,
                        gap |-> stop - start, nodes |-> HeapSnapOf(st).nodes,
                        after |-> <<>>]]

\* The return of use_unused_space, recorded: the heap list it leaves.
cut_exit(st) == [st EXCEPT !.cut.after = HeapSnapOf(st).nodes]

use_unused_space(st, addr, size_used) ==
    cut_exit(split_unused(cut_entry(st, addr,
                                    addr + META_DATA_SIZE + SIZE_ALIGN(size_used),
                                    unused_stop(st, addr)),
                          addr, addr + META_DATA_SIZE + SIZE_ALIGN(size_used),
                          unused_stop(st, addr)))

\* The two tests of the loop body of search_best_fit on curr_cell.
best_fit_first(m, curr_cell, best_fit, size) ==
    IF m[curr_cell].status = STATUS_FREE /\ best_fit = NULL /\ m[curr_cell].size >= size
    THEN curr_cell ELSE best_fit

\* A faulty variant of best_fit_better: a block as small as the best so far
\* replaces it.
best_fit_better_last(m, curr_cell, best_fit, size) ==
    IF m[curr_cell].status = STATUS_FREE /\ best_fit # NULL /\ m[curr_cell].size >= size
       /\ m[curr_cell].size <= m[best_fit].size
    THEN curr_cell ELSE best_fit

best_fit_better(m, curr_cell, best_fit, size) ==
    IF m[curr_cell].status = STATUS_FREE /\ best_fit # NULL /\ m[curr_cell].size >= size
       /\ m[curr_cell].size < m[best_fit].size
    THEN curr_cell ELSE best_fit

\* The while loop of search_best_fit: the best fit when the walk ends.
RECURSIVE best_fit_walk(_, _, _, _)
best_fit_walk(m, curr_cell, best_fit, size) ==
    IF curr_cell = block_head_brk THEN best_fit
    ELSE best_fit_walk(m, m[curr_cell].next,
                       best_fit_better(m, curr_cell,
                                       best_fit_first(m, curr_cell, best_fit, size), size),
                       size)

\* The entry to search_best_fit, recorded.
search_entry(st) ==
    [st EXCEPT !.search = Append(@, Statuses(st.mem)), !.cand = HeapSnapOf(st)]

\* use_unused_space((void *)best_fit, best_fit->size)
search_split(st, best_fit) == use_unused_space(st, best_fit, st.mem[best_fit].size)

\* The end of search_best_fit, best_fit the result of its loop.
search_take(st, best_fit, size) ==
    IF best_fit # NULL
    THEN Return(search_split(relink_alloc(delete_meta_cell_brk(st, best_fit),
                                          best_fit, size),
                             best_fit),
                best_fit + META_DATA_SIZE)
    ELSE Return(st, NULL)

search_best_fit(st, size) ==
    search_take(search_entry(st),
                best_fit_walk(st.mem, st.mem[block_head_brk].next, NULL, size), size)

\* The branch of increase_heap for a FREE last cell.
increase_heap_free(st, last_cell, size) ==
    relink_alloc(
        delete_meta_cell_brk(
            sbrk(st, SIZE_ALIGN(size) - st.mem[last_cell].size
                     - (st.brk - (last_cell + META_DATA_SIZE + st.mem[last_cell].size))),
            last_cell),
        last_cell, size)

\* The branch of increase_heap for an allocated last cell: sbrk returns the
\* old break, where the new cell is put.
increase_heap_alloc(st, last_cell, size) ==
    add_meta_cell_brk(sbrk(st, META_DATA_SIZE + SIZE_ALIGN(size)),
                      last_cell, st.brk, SIZE_ALIGN(size), STATUS_ALLOC)

increase_heap_from(st, last_cell, size) ==
    IF st.mem[last_cell].status = STATUS_FREE
    THEN increase_heap_free(st, last_cell, size)
    ELSE increase_heap_alloc(st, last_cell, size)

increase_heap(st, size) == increase_heap_from(st, st.mem[block_head_brk].prev, size)

(* ------------------------------------------------------------------ *)
(* The public primitives.                                               *)
(* ------------------------------------------------------------------ *)

\* memcpy(dst, src, n): logged with the stored sizes of the two blocks and
\* the headers written before it; the log of writes restarts after it.
memcpy(st, dst, src, n) ==
    [st EXCEPT !.copy = Append(@, [n |-> n, src |-> src, dst |-> dst,
                                   srcsize |-> st.mem[src - META_DATA_SIZE].size,
                                   dstsize |-> st.mem[dst - META_DATA_SIZE].size,
                                   wr |-> st.wr]),
               !.wr = {}]

\* memset(addr, 0, n)
memset(st, addr, n) == [st EXCEPT !.zeroed = @ \cup {[addr |-> addr, len |-> n]}]

\* A faulty variant of prealloc_once: the latch is not looked at.
prealloc_always(st) == heap_preallocation(st)

\* if (!block_head_brk.size) heap_preallocation();
prealloc_once(st) ==
    IF st.mem[block_head_brk].size = 0 THEN heap_preallocation(st) ELSE st

\* if (!return_addr) return_addr = increase_heap(size);
extend_on_miss(st, size) ==
    IF st.ret = NULL THEN increase_heap(st, size) ELSE st

\* The heap branch of os_malloc and of os_calloc.
heap_alloc(st, size) ==
    extend_on_miss(search_best_fit(coalesce_blocks(prealloc_once(st)), size), size)

\* A faulty variant of os_malloc: the request is routed by its aligned size.
os_malloc_aligned(st, maddr, size) ==
    IF size = 0 THEN Return(st, NULL)
    ELSE IF SIZE_ALIGN(size) >= BRK_LIMIT THEN add_meta_cell_mmap(st, maddr, size)
    ELSE heap_alloc(st, size)

\* maddr is the address mmap returns if the call maps.
os_malloc(st, maddr, size) ==
    IF size = 0 THEN Return(st, NULL)
    ELSE IF size >= BRK_LIMIT THEN add_meta_cell_mmap(st, maddr, size)
    ELSE heap_alloc(st, size)

\* if (cell_addr->status == STATUS_MAPPED) delete_meta_cell_mmap(cell_addr);
free_mapped(st, cell_addr) ==
    IF st.mem[cell_addr].status = STATUS_MAPPED
    THEN delete_meta_cell_mmap(st, cell_addr) ELSE st

\* A faulty variant of free_alloc: the block stays allocated.
free_alloc_keep(st, cell_addr) == st

\* if (cell_addr->status == STATUS_ALLOC) cell_addr->status = STATUS_FREE;
free_alloc(st, cell_addr) ==
    IF st.mem[cell_addr].status = STATUS_ALLOC
    THEN Store(st, cell_addr, "status", STATUS_FREE) ELSE st

os_free(st, ptr) ==
    IF ptr = NULL THEN st
    ELSE free_mapped(free_alloc(st, ptr - META_DATA_SIZE), ptr - META_DATA_SIZE)

\* A faulty variant of calloc_zero: only a block of the heap is cleared, a
\* mapping being taken for zero-filled.
calloc_zero_heap(st, total_size) ==
    IF st.mem[st.ret - META_DATA_SIZE].status = STATUS_MAPPED THEN st
    ELSE memset(st, st.ret, SIZE_ALIGN(total_size))

\* memset(return_addr, 0, SIZE_ALIGN(total_size))
calloc_zero(st, total_size) == memset(st, st.ret, SIZE_ALIGN(total_size))

\* A faulty variant of calloc_total: the heap is preallocated before the
\* size is tested.
calloc_total_prealloc(st, maddr, total_size, page_size) ==
    IF total_size = 0 THEN Return(prealloc_once(st), NULL)
    ELSE calloc_zero(IF total_size >= page_size
                     THEN add_meta_cell_mmap(st, maddr, total_size)
                     ELSE heap_alloc(st, total_size),
                     total_size)

\* os_calloc from its computed total_size and page_size on.
calloc_total(st, maddr, total_size, page_size) ==
    IF total_size = 0 THEN Return(st, NULL)
    ELSE calloc_zero(IF total_size >= page_size
                     THEN add_meta_cell_mmap(st, maddr, total_size)
                     ELSE heap_alloc(st, total_size),
                     total_size)

os_calloc(st, maddr, nmemb, size) ==
    calloc_total(st, maddr, nmemb * size,
                 IF PageSize > PAGE_CAP THEN PAGE_CAP ELSE PageSize)

\* memcpy(return_addr, (void *)cell_addr + META_DATA_SIZE, cell_addr->size)
copy_block(st, cell_addr) ==
    memcpy(st, st.ret, cell_addr + META_DATA_SIZE, st.mem[cell_addr].size)

\* memcpy(return_addr, (void *)cell_addr + META_DATA_SIZE, size)
copy_size(st, cell_addr, size) ==
    memcpy(st, st.ret, cell_addr + META_DATA_SIZE, size)

\* use_unused_space(cell_addr, SIZE_ALIGN(cell_addr->size))
realloc_split(st, cell_addr) ==
    use_unused_space(st, cell_addr, SIZE_ALIGN(st.mem[cell_addr].size))

\* The reallocation of a heap block on the map segment.
realloc_heap_to_map(st, maddr, cell_addr, size) ==
    copy_block(add_meta_cell_mmap(Store(st, cell_addr, "status", STATUS_FREE),
                                  maddr, size),
               cell_addr)

\* The move of a heap block to a block os_malloc returns.
realloc_heap_by_malloc(st, maddr, cell_addr, size) ==
    copy_block(Store(os_malloc(st, maddr, size), cell_addr, "status", STATUS_FREE),
               cell_addr)

\* The extend case of os_realloc after coalesce_block(cell_addr).
realloc_extend(st, maddr, ptr, cell_addr, size, old_size) ==
    IF st.mem[cell_addr].size >= SIZE_ALIGN(size)
    THEN Return(realloc_split(Store(Store(st, cell_addr, "size", SIZE_ALIGN(size)),
                                    cell_addr, "status", STATUS_ALLOC),
                              cell_addr),
                ptr)
    ELSE IF st.mem[cell_addr].next = block_head_brk /\ old_size = st.mem[cell_addr].size
    THEN Return(Store(sbrk(st, SIZE_ALIGN(size) - st.mem[cell_addr].size),
                      cell_addr, "size", SIZE_ALIGN(size)),
                cell_addr + META_DATA_SIZE)
    ELSE realloc_heap_by_malloc(st, maddr, cell_addr, size)

\* A faulty variant of realloc_heap: below BRK_LIMIT the block is always
\* moved to a newly allocated one.
realloc_heap_move(st, maddr, ptr, size) ==
    IF size >= BRK_LIMIT
    THEN realloc_heap_to_map(st, maddr, ptr - META_DATA_SIZE, size)
    ELSE realloc_heap_by_malloc(st, maddr, ptr - META_DATA_SIZE, size)

\* The branch of os_realloc for a block on the heap (status STATUS_ALLOC).
realloc_heap(st, maddr, ptr, size) ==
    IF size >= BRK_LIMIT
    THEN realloc_heap_to_map(st, maddr, ptr - META_DATA_SIZE, size)
    ELSE IF SIZE_ALIGN(size) <= st.mem[ptr - META_DATA_SIZE].size
    THEN Return(use_unused_space(Store(st, ptr - META_DATA_SIZE, "size", SIZE_ALIGN(size)),
                                 ptr - META_DATA_SIZE, SIZE_ALIGN(size)),
                ptr)
    ELSE realloc_extend(coalesce_block(st, ptr - META_DATA_SIZE), maddr, ptr,
                        ptr - META_DATA_SIZE, size, st.mem[ptr - META_DATA_SIZE].size)

\* The end of the mapping that holds the block at cell, rounded up to a page.
MappedEnd(st, cell) ==
    ((cell + META_DATA_SIZE + st.mem[cell].size + PageSize - 1) \div PageSize) * PageSize

\* The end of the MAPPED branch after its memcpy.  A memcpy that reads past
\* the pages of the source mapping (over) is undefined: with fault the read
\* hits an unmapped page and the process is killed there, without it the
\* pages behind the mapping are readable and the call goes on.
realloc_mapped_end(st, cell_addr, over, fault) ==
    IF fault /\ over
    THEN [st EXCEPT !.dead = TRUE, !.over = TRUE]
    ELSE [delete_meta_cell_mmap(st, cell_addr) EXCEPT !.over = over]

\* The branch of os_realloc for a block on the map segment.
realloc_mapped(st, maddr, ptr, size, fault) ==
    realloc_mapped_end(
        copy_size(IF size >= BRK_LIMIT THEN add_meta_cell_mmap(st, maddr, size)
                  ELSE os_malloc(st, maddr, size),
                  ptr - META_DATA_SIZE, size),
        ptr - META_DATA_SIZE,
        ptr + size > MappedEnd(st, ptr - META_DATA_SIZE),
        fault)

\* if (cell_addr->status == STATUS_MAPPED) { ... } return return_addr;
realloc_if_mapped(st, maddr, ptr, size, fault) ==
    IF st.mem[ptr - META_DATA_SIZE].status = STATUS_MAPPED
    THEN realloc_mapped(st, maddr, ptr, size, fault)
    ELSE st

\* if (cell_addr->status == STATUS_ALLOC) { ... }
realloc_if_heap(st, maddr, ptr, size) ==
    IF st.mem[ptr - META_DATA_SIZE].status = STATUS_ALLOC
    THEN realloc_heap(st, maddr, ptr, size)
    ELSE st

\* A faulty variant of os_realloc: a resize to size 0 returns NULL and leaves
\* the block as it is.
os_realloc_nofree(st, maddr, ptr, size, fault) ==
    IF ptr = NULL
    THEN IF size >= BRK_LIMIT THEN add_meta_cell_mmap(st, maddr, size)
         ELSE os_malloc(st, maddr, size)
    ELSE IF size = 0 THEN Return(st, NULL)
    ELSE IF st.mem[ptr - META_DATA_SIZE].status = STATUS_FREE THEN Return(st, NULL)
    ELSE realloc_if_mapped(realloc_if_heap(st, maddr, ptr, size), maddr, ptr, size, fault)

os_realloc(st, maddr, ptr, size, fault) ==
    IF ptr = NULL
    THEN IF size >= BRK_LIMIT THEN add_meta_cell_mmap(st, maddr, size)
         ELSE os_malloc(st, maddr, size)
    ELSE IF size = 0 THEN Return(os_free(st, ptr), NULL)
    ELSE IF st.mem[ptr - META_DATA_SIZE].status = STATUS_FREE THEN Return(st, NULL)
    ELSE realloc_if_mapped(realloc_if_heap(st, maddr, ptr, size), maddr, ptr, size, fault)

(* ------------------------------------------------------------------ *)
(* The state machine.                                                   *)
(*   mem, brk, maps   the memory of the process, as above               *)
(*   live   the pointers returned and not yet released, each with the   *)
(*          size last requested for it                                  *)
(*   last   what the last public operation was given, did and returned, *)
(*          with the coalesced heap it started from (snap) and the      *)
(*          operation before it (before), the mapped list (mlist0) and  *)
(*          the live MAPPED blocks (mapped0) it started from            *)
(*   nops   the number of public operations so far                      *)
(*   dead   the process was killed inside an operation                  *)
(*   npre   the number of calls of heap_preallocation so far            *)
(* ------------------------------------------------------------------ *)
VARIABLES mem, brk, maps, live, last, nops, dead, npre

vars == <<mem, brk, maps, live, last, nops, dead, npre>>

\* The state an operation starts from.
St == [mem |-> mem, brk |-> brk, maps |-> maps, dmin |-> 0, wr |-> {},
       ret |-> NULL, search |-> <<>>, copy |-> <<>>, zeroed |-> {}, over |-> FALSE,
       dead |-> FALSE, npre |-> 0, pool |-> [nodes |-> <<>>, brk |-> NULL],
       cand |-> [nodes |-> <<>>, brk |-> NULL], cut |-> NoCut]

\* The addresses the kernel may return from mmap: the slots no live mapping
\* meets.  There is one slot more than there can be live allocations.
FreeAddrs ==
    {a \in {MapBase + k * MapStride : k \in 0..MaxLive} :
        \A mp \in maps : mp.addr + mp.len <= a \/ a + MapStride <= mp.addr}

\* The length of the prefix of [p, p + n) in which no header of wr was written.
Intact(p, n, wr) ==
    LET hit == {a \in wr : a + META_DATA_SIZE > p /\ a < p + n}
    IN IF hit = {} THEN n
       ELSE Max(0, (CHOOSE a \in hit : \A b \in hit : a <= b) - p)

\* The number of leading bytes of the payload at ptr (n bytes requested) that
\* the payload at s.ret holds when os_realloc returns.
Kept(s, ptr, n) ==
    IF s.ret = ptr THEN Intact(ptr, n, s.wr \cup UNION {s.copy[i].wr : i \in 1..Len(s.copy)})
    ELSE IF Len(s.copy) = 1 /\ s.copy[1].src = ptr /\ s.copy[1].dst = s.ret
    THEN Intact(s.ret, Min(s.copy[1].n, Intact(ptr, n, s.copy[1].wr)), s.wr)
    ELSE 0

NoOld == [size |-> 0, status |-> -1, req |-> 0]

OldOf(ptr) ==
    IF ptr = NULL THEN NoOld
    ELSE [size |-> mem[ptr - META_DATA_SIZE].size,
          status |-> mem[ptr - META_DATA_SIZE].status,
          req |-> live[ptr]]

Copies(s) == [i \in 1..Len(s.copy) |->
                [n |-> s.copy[i].n, src |-> s.copy[i].src, dst |-> s.copy[i].dst,
                 srcsize |-> s.copy[i].srcsize, dstsize |-> s.copy[i].dstsize]]

\* The heap as coalesce_blocks leaves it (the heap every allocation searches):
\* before the preallocation there is no list to walk.
Coalesced(st) ==
    IF st.mem[block_head_brk].size = 0 THEN st ELSE coalesce_blocks(st)

\* The headers of the live MAPPED blocks.
LiveMappedHdrs ==
    {p - META_DATA_SIZE : p \in {q \in DOMAIN live :
                                   mem[q - META_DATA_SIZE].status = STATUS_MAPPED}}

\* What the last operation leaves for the next one to remember.
Before ==
    [op |-> last.op, ptr |-> last.ptr, ret |-> last.ret, size |-> last.size,
     brk0 |-> last.brk0, snap |-> last.snap]

\* The end of a public operation: its effects become the state.
Commit(s, op, ptr, size, nmemb, newlive, kept) ==
    /\ mem' = s.mem
    /\ brk' = s.brk
    /\ maps' = s.maps
    /\ dead' = s.dead
    /\ live' = newlive
    /\ nops' = nops + 1
    /\ npre' = npre + s.npre
    /\ last' = [op |-> op, ptr |-> ptr, size |-> size, nmemb |-> nmemb,
                ret |-> s.ret, old |-> OldOf(ptr), dmin |-> s.dmin,
                search |-> s.search, copy |-> Copies(s), kept |-> kept,
                zeroed |-> s.zeroed, brk0 |-> brk, pre |-> Statuses(mem),
                snap |-> HeapSnapOf(Coalesced(St)), before |-> Before,
                pool |-> s.pool, cand |-> s.cand, cut |-> s.cut,
                mlist0 |-> MappedList(mem), mapped0 |-> LiveMappedHdrs]

With(f, p, n) == [x \in (DOMAIN f) \cup {p} |-> IF x = p THEN n ELSE f[x]]
Without(f, p) == [x \in (DOMAIN f) \ {p} |-> f[x]]

Init ==
    /\ mem = [a \in {block_head_brk, block_head_mmap} |-> BlankCell]
    /\ brk = HeapStart
    /\ maps = {}
    /\ live = [x \in {} |-> 0]
    /\ last = [op |-> "init", ptr |-> NULL, size |-> 0, nmemb |-> 0, ret |-> NULL,
               old |-> NoOld, dmin |-> 0, search |-> <<>>, copy |-> <<>>,
               kept |-> 0, zeroed |-> {}, brk0 |-> HeapStart, pre |-> <<>>,
               snap |-> [nodes |-> <<>>, brk |-> HeapStart],
               pool |-> [nodes |-> <<>>, brk |-> NULL],
               cand |-> [nodes |-> <<>>, brk |-> NULL], cut |-> NoCut,
               mlist0 |-> <<>>, mapped0 |-> {},
               before |-> [op |-> "none", ptr |-> NULL, ret |-> NULL, size |-> 0,
                           brk0 |-> HeapStart,
                           snap |-> [nodes |-> <<>>, brk |-> HeapStart]]]
    /\ nops = 0
    /\ npre = 0
    /\ dead = FALSE

\* The kernel's choices in an operation: the address of the mapping, if the
\* operation maps (it does if it maps at the first free address), and
\* whether a read past the source mapping faults, if there is such a read.
FirstFree == CHOOSE a \in FreeAddrs : \A b \in FreeAddrs : a <= b
MapAddrs(s0) ==
    IF s0.maps \subseteq maps THEN {FirstFree}
    ELSE {a \in FreeAddrs : Cardinality({b \in FreeAddrs : b < a}) < MapChoices}
Faults(s0) == IF s0.over THEN BOOLEAN ELSE {FALSE}

\* The pointers live after an allocation returned s.ret for n bytes.
LiveAfterAlloc(s, n) == IF s.ret = NULL THEN live ELSE With(live, s.ret, n)

MallocDone(s, size) ==
    Commit(s, "malloc", NULL, size, 1, LiveAfterAlloc(s, size), 0)

MallocFrom(s0, size) ==
    \E maddr \in MapAddrs(s0) :
        MallocDone(IF maddr = FirstFree THEN s0 ELSE os_malloc(St, maddr, size), size)

Malloc(size) ==
    /\ ~dead /\ nops < MaxOps /\ Cardinality(DOMAIN live) < MaxLive
    /\ MallocFrom(os_malloc(St, FirstFree, size), size)

Free(ptr) ==
    /\ ~dead /\ nops < MaxOps
    /\ Commit(os_free(St, ptr), "free", ptr, 0, 1,
              IF ptr = NULL THEN live ELSE Without(live, ptr), 0)

CallocDone(s, nmemb, size) ==
    Commit(s, "calloc", NULL, size, nmemb, LiveAfterAlloc(s, nmemb * size), 0)

CallocFrom(s0, nmemb, size) ==
    \E maddr \in MapAddrs(s0) :
        CallocDone(IF maddr = FirstFree THEN s0 ELSE os_calloc(St, maddr, nmemb, size),
                   nmemb, size)

Calloc(nmemb, size) ==
    /\ ~dead /\ nops < MaxOps /\ Cardinality(DOMAIN live) < MaxLive
    /\ CallocFrom(os_calloc(St, FirstFree, nmemb, size), nmemb, size)

ReallocDone(s, ptr, size) ==
    Commit(s, "realloc", ptr, size, 1,
           IF s.dead THEN live
           ELSE IF ptr = NULL THEN LiveAfterAlloc(s, size)
           ELSE IF s.ret = NULL THEN Without(live, ptr)
           ELSE With(Without(live, ptr), s.ret, size),
           IF ptr = NULL \/ size = 0 \/ s.dead THEN 0 ELSE Kept(s, ptr, live[ptr]))

ReallocFrom(s0, ptr, size) ==
    \E maddr \in MapAddrs(s0), fault \in Faults(s0) :
        ReallocDone(IF maddr = FirstFree /\ ~fault THEN s0
                    ELSE os_realloc(St, maddr, ptr, size, fault),
                    ptr, size)

Realloc(ptr, size) ==
    /\ ~dead /\ nops < MaxOps
    /\ ptr = NULL => Cardinality(DOMAIN live) < MaxLive
    /\ ReallocFrom(os_realloc(St, FirstFree, ptr, size, FALSE), ptr, size)

\* The sizes os_realloc is asked for: the requested sizes and the stored
\* size of the block itself.
ReallocSizes(ptr) ==
    Sizes \cup (IF ptr = NULL THEN {} ELSE {mem[ptr - META_DATA_SIZE].size})

Next ==
    \/ \E size \in Sizes : Malloc(size)
    \/ \E ptr \in (DOMAIN live) \cup {NULL} : Free(ptr)
    \/ \E a \in CallocArgs : Calloc(a[1], a[2])
    \/ \E ptr \in (DOMAIN live) \cup {NULL} : \E size \in ReallocSizes(ptr) : Realloc(ptr, size)

Spec == Init /\ [][Next]_vars

\* Longer runs of requests that all stay on the heap.
MallocHeap(size) ==
    /\ ~dead /\ nops < HeapOps /\ Cardinality(DOMAIN live) < HeapLive
    /\ MallocFrom(os_malloc(St, FirstFree, size), size)

FreeHeap(ptr) ==
    /\ ~dead /\ nops < HeapOps
    /\ Commit(os_free(St, ptr), "free", ptr, 0, 1, Without(live, ptr), 0)

ReallocHeap(ptr, size) ==
    /\ ~dead /\ nops < HeapOps
    /\ ReallocFrom(os_realloc(St, FirstFree, ptr, size, FALSE), ptr, size)

NextHeap ==
    \/ \E size \in HeapSizes : MallocHeap(size)
    \/ \E ptr \in DOMAIN live : FreeHeap(ptr)
    \/ \E ptr \in DOMAIN live : \E size \in CutSizes : ReallocHeap(ptr, size)

SpecHeap == Init /\ [][NextHeap]_vars

(* ------------------------------------------------------------------ *)
(* Properties.                                                          *)
(* ------------------------------------------------------------------ *)

Hdr(p) == p - META_DATA_SIZE
StoredSize(p) == mem[Hdr(p)].size
Nodes == HeapList(mem)

\* Two consecutive entries of a sequence of statuses are both FREE.
AdjacentFree(sts) ==
    \E i \in 1..(Len(sts) - 1) : sts[i] = STATUS_FREE /\ sts[i + 1] = STATUS_FREE

\* The distance from the end of the payload of the i-th heap node to the next
\* header, or to the break for the last node.
GapAfter(i) ==
    (IF i = Len(Nodes) THEN brk ELSE Nodes[i + 1])
        - (Nodes[i] + META_DATA_SIZE + mem[Nodes[i]].size)

\* The last operation was an os_realloc of a live block to a nonzero size
\* that returned.
Resized == last.op = "realloc" /\ last.ptr # NULL /\ last.size # 0 /\ ~dead

\* C1: the payload ranges [p, p + stored size) of any two live allocations,
\* heap or mapped, are disjoint.
C1_NonOverlap ==
    \A p \in DOMAIN live : \A q \in DOMAIN live :
        p # q => (p + StoredSize(p) <= q \/ q + StoredSize(q) <= p)

\* C1 witness: a resize has moved a heap block to another heap block while
\* a second heap allocation is live.
C1_Witness ==
    /\ Resized /\ last.ret # last.ptr /\ last.ret # NULL
    /\ last.old.status = STATUS_ALLOC /\ mem[Hdr(last.ret)].status = STATUS_ALLOC
    /\ \E q \in DOMAIN live : q # last.ret /\ mem[Hdr(q)].status = STATUS_ALLOC

\* C2 as stated: the heap list partitions [heap_origin, program_break) with no
\* gaps: every node ends where the next begins, the last ends at the break.
C2_NoGaps ==
    \A i \in 1..Len(Nodes) : GapAfter(i) = 0

\* C2 as amended: the heap list starts at the heap origin and every node ends
\* at most one header before the next node, or before the break for the last.
C2_GapsAtMostHeader ==
    /\ Len(Nodes) > 0 => Nodes[1] = HeapStart
    /\ \A i \in 1..Len(Nodes) : GapAfter(i) >= 0 /\ GapAfter(i) <= META_DATA_SIZE

\* C2 witness: an in-place resize has left a surplus of exactly one header
\* between the block and its successor.
C2_Witness ==
    /\ Resized /\ last.ret = last.ptr
    /\ \E i \in 1..(Len(Nodes) - 1) :
         Nodes[i] = Hdr(last.ptr) /\ GapAfter(i) = META_DATA_SIZE

\* The last operation was an os_malloc or os_realloc that returned a block
\* obtained in this call.
Served ==
    /\ last.op \in {"malloc", "realloc"} /\ last.size # 0 /\ last.ret # NULL
    /\ last.ret # last.ptr

\* C3 as stated: a request is served from a mapping (MAPPED block) if and only
\* if its aligned size is at least BRK_LIMIT.
C3_RouteByAlignedSize ==
    Served =>
        (mem[Hdr(last.ret)].status = STATUS_MAPPED <=> SIZE_ALIGN(last.size) >= BRK_LIMIT)

\* C3 as amended: a request is served from a mapping (MAPPED block, whose
\* header starts a live mapping) if and only if the requested size itself is
\* at least BRK_LIMIT, and from the heap (ALLOCATED block) otherwise.
C3_RouteByRequestedSize ==
    Served =>
        /\ mem[Hdr(last.ret)].status = STATUS_MAPPED <=> last.size >= BRK_LIMIT
        /\ mem[Hdr(last.ret)].status = STATUS_ALLOC <=> last.size < BRK_LIMIT
        /\ last.size >= BRK_LIMIT <=> (\E mp \in maps : mp.addr = Hdr(last.ret))

\* C3 witness: a request of 131071 bytes, whose aligned size is BRK_LIMIT, has
\* been served from the heap.
C3_Witness ==
    /\ Served /\ last.size < BRK_LIMIT /\ SIZE_ALIGN(last.size) = BRK_LIMIT
    /\ mem[Hdr(last.ret)].status = STATUS_ALLOC

\* C4: every memcpy of a resize copies at most the stored size of the source
\* block and at most the stored size of the destination block.
C4_CopyWithinBlocks ==
    \A i \in 1..Len(last.copy) :
        last.copy[i].n <= Min(last.copy[i].srcsize, last.copy[i].dstsize)

\* C5: after q = resize(p, m) of a live allocation of n bytes, the first
\* min(n, m) bytes at q are the bytes that were at p.
C5_DataKept ==
    (Resized /\ last.ret # NULL) => last.kept >= Min(last.old.req, last.size)

\* C5 witness: a resize has moved a block of the heap to another heap block
\* and the requested bytes came along.
C5_Witness ==
    /\ Resized /\ last.ret # NULL /\ last.ret # last.ptr
    /\ last.old.status = STATUS_ALLOC /\ mem[Hdr(last.ret)].status = STATUS_ALLOC
    /\ last.old.req > 0 /\ last.kept >= last.old.req

\* C6 as stated: resizing a live block, heap or mapped, to its stored size
\* returns the same pointer.
C6_SameSizeSamePointer ==
    (Resized /\ last.size = last.old.size
        /\ last.old.status \in {STATUS_ALLOC, STATUS_MAPPED})
    => last.ret = last.ptr

\* C6 as amended: resizing a live heap block to its stored size, when that
\* size is below BRK_LIMIT, returns the same pointer.
C6_SameSizeSamePointerHeap ==
    (Resized /\ last.size = last.old.size /\ last.old.status = STATUS_ALLOC
        /\ last.size < BRK_LIMIT)
    => /\ last.ret = last.ptr
       /\ StoredSize(last.ptr) = last.old.size
       /\ mem[Hdr(last.ptr)].status = STATUS_ALLOC

\* C6 witness: a heap block has been resized to its stored size.
C6_Witness ==
    /\ Resized /\ last.size = last.old.size /\ last.old.status = STATUS_ALLOC
    /\ last.size < BRK_LIMIT /\ last.ret = last.ptr

\* C7: the program break never decreases: no operation moves it by a negative
\* amount, and it ends no lower than it started.
C7_BreakMonotone ==
    last.dmin >= 0 /\ brk >= last.brk0

\* C7 witness: a resize has grown the last block in place by moving the break.
C7_Witness ==
    Resized /\ last.ret = last.ptr /\ brk > last.brk0

\* C8: every pointer returned is a multiple of 8, and so are the stored sizes
\* and the break.
C8_Aligned ==
    /\ last.ret % ALIGNMENT = 0
    /\ \A p \in DOMAIN live : p % ALIGNMENT = 0 /\ StoredSize(p) % ALIGNMENT = 0
    /\ \A i \in 1..Len(Nodes) : Nodes[i] % ALIGNMENT = 0 /\ mem[Nodes[i]].size % ALIGNMENT = 0
    /\ brk % ALIGNMENT = 0

\* C8 witness: a block has been returned that lies behind a live block whose
\* requested size is no multiple of 8.
C8_Witness ==
    /\ last.ret # NULL /\ last.ret \in DOMAIN live
    /\ \E p \in DOMAIN live : live[p] % ALIGNMENT # 0 /\ p < last.ret
                              /\ mem[Hdr(p)].status = STATUS_ALLOC
                              /\ mem[Hdr(last.ret)].status = STATUS_ALLOC

\* C9: at every entry to search_best_fit no two consecutive nodes of the heap
\* list are both FREE.
C9_NoAdjacentFreeAtSearch ==
    \A i \in 1..Len(last.search) : ~AdjacentFree(last.search[i])

\* C9 witness: the search was entered in an operation that started with two
\* consecutive FREE nodes in the heap list.
C9_Witness ==
    Len(last.search) > 0 /\ AdjacentFree(last.pre)

\* The mapping a MAPPED block is backed by: header and payload.
MappingOf(p) == [addr |-> Hdr(p), len |-> META_DATA_SIZE + StoredSize(p)]

LiveMapped == {p \in DOMAIN live : mem[Hdr(p)].status = STATUS_MAPPED}

\* C10: while the process runs, the live mappings are exactly the mappings of
\* header + size bytes at the headers of the live MAPPED blocks.
C10_MappingsAreLiveMapped ==
    ~dead => maps = {MappingOf(p) : p \in LiveMapped}

\* C10 witness: a MAPPED block has been freed or resized away while another
\* MAPPED block stays live.
C10_Witness ==
    /\ ~dead /\ last.op \in {"free", "realloc"} /\ last.old.status = STATUS_MAPPED
    /\ last.ptr \notin DOMAIN live /\ LiveMapped # {}
    /\ \A mp \in maps : mp.addr # Hdr(last.ptr) \/ last.ret = last.ptr

\* The last two operations were p = os_malloc(n) for a heap-routed n and
\* os_free(p).
FreedAtOnce ==
    /\ last.op = "free" /\ last.before.op = "malloc"
    /\ last.before.size > 0 /\ last.before.size < BRK_LIMIT
    /\ last.ptr = last.before.ret /\ last.ptr # NULL

\* C11 as stated: after p = allocate(n), free(p) for a heap-routed n, the
\* coalesced heap (addresses, sizes and statuses of the list, and the break)
\* is the coalesced heap from before the allocate.
C11_RoundTrip ==
    FreedAtOnce => HeapSnapOf(Coalesced(St)) = last.before.snap

\* C11 as amended: the same, for an allocate that did not move the break
\* (it was served by the best-fit search from the preallocated heap).
C11_RoundTripNoGrowth ==
    (FreedAtOnce /\ last.before.brk0 = last.brk0)
    => HeapSnapOf(Coalesced(St)) = last.before.snap

\* C11 witness: a block that the search split off a larger FREE block, with
\* an allocated block before it, has been freed at once.
C11_Witness ==
    /\ FreedAtOnce /\ last.before.brk0 = last.brk0
    /\ mem[mem[Hdr(last.ptr)].next].status = STATUS_FREE
    /\ mem[mem[Hdr(last.ptr)].prev].status = STATUS_ALLOC

\* What a call does to the allocator and what it returns.
EffectOf(s) == [mem |-> s.mem, brk |-> s.brk, maps |-> s.maps, ret |-> s.ret]

\* C12, for one step: a step os_realloc(NULL, n) takes is a step os_malloc(n)
\* takes (same block manager state, same mappings, same pointer returned and
\* made live) and the other way round, for every n; a step os_realloc(p, 0)
\* takes for a live p is the step os_free(p) takes, it returns NULL and p is
\* live no more; and the other way round.
C12_Step ==
    /\ (last'.op = "realloc" /\ last'.ptr = NULL) =>
          /\ \E a \in FreeAddrs :
                EffectOf(os_malloc(St, a, last'.size))
                    = [mem |-> mem', brk |-> brk', maps |-> maps', ret |-> last'.ret]
          /\ live' = IF last'.ret = NULL THEN live ELSE With(live, last'.ret, last'.size)
    /\ last'.op = "malloc" =>
          \E a \in FreeAddrs :
              EffectOf(os_realloc(St, a, NULL, last'.size, FALSE))
                  = [mem |-> mem', brk |-> brk', maps |-> maps', ret |-> last'.ret]
    /\ (last'.op = "realloc" /\ last'.ptr # NULL /\ last'.size = 0) =>
          /\ EffectOf(os_free(St, last'.ptr))
                = [mem |-> mem', brk |-> brk', maps |-> maps', ret |-> NULL]
          /\ last'.ret = NULL
          /\ live' = Without(live, last'.ptr)
    /\ (last'.op = "free" /\ last'.ptr # NULL) =>
          EffectOf(os_realloc(St, FirstFree, last'.ptr, 0, FALSE))
              = [mem |-> mem', brk |-> brk', maps |-> maps', ret |-> NULL]

\* C12: resize(null, n) is allocate(n), resize(p, 0) is free(p) returning null.
C12_ResizeEdgeCases == [][C12_Step]_vars

\* C12 witness: a mapped block obtained from os_realloc(NULL, n), n at least
\* BRK_LIMIT, has been released by os_realloc(p, 0).
C12_Witness ==
    /\ last.op = "realloc" /\ last.ptr # NULL /\ last.size = 0 /\ last.ret = NULL
    /\ last.old.status = STATUS_MAPPED /\ last.ptr \notin DOMAIN live
    /\ last.before.op = "realloc" /\ last.before.ptr = NULL
    /\ last.before.ret = last.ptr /\ last.before.size >= BRK_LIMIT

\* The operation l records was a request for zero bytes.
ZeroRequest(l) ==
    \/ l.op = "malloc" /\ l.size = 0
    \/ l.op = "calloc" /\ l.nmemb * l.size = 0
    \/ l.op = "realloc" /\ l.ptr = NULL /\ l.size = 0

\* C13, for one step: a request for zero bytes returns NULL and changes no
\* header (so neither list nor the preallocation latch), nor the break, nor
\* the mappings, and it does not enter the search.
C13_Step ==
    ZeroRequest(last') =>
        /\ last'.ret = NULL
        /\ mem' = mem /\ brk' = brk /\ maps' = maps /\ live' = live
        /\ last'.search = <<>> /\ last'.zeroed = {}

\* C13: zero-sized requests return null and have no effect.
C13_ZeroSizeNoEffect == [][C13_Step]_vars

\* C13 witness: os_calloc was asked for zero bytes in a process that holds a
\* mapping and has no heap yet, and there is still none.
C13_Witness ==
    /\ last.op = "calloc" /\ ZeroRequest(last)
    /\ maps # {} /\ mem[block_head_brk].size = 0 /\ brk = HeapStart

\* The last operation was an os_calloc for more than zero bytes.
Calloced == last.op = "calloc" /\ last.nmemb * last.size > 0

\* C14: os_calloc(k, n) with k * n > 0 returns a block whose first
\* SIZE_ALIGN(k * n) bytes it has set to zero, all inside the block: a block
\* of the heap when k * n is below min(page size, 4080), a new mapping
\* otherwise.
C14_Zeroed ==
    Calloced =>
        /\ last.ret # NULL
        /\ [addr |-> last.ret, len |-> SIZE_ALIGN(last.nmemb * last.size)] \in last.zeroed
        /\ StoredSize(last.ret) >= SIZE_ALIGN(last.nmemb * last.size)
        /\ mem[Hdr(last.ret)].status
             = IF last.nmemb * last.size < Min(PageSize, PAGE_CAP)
               THEN STATUS_ALLOC ELSE STATUS_MAPPED
        /\ mem[Hdr(last.ret)].status = STATUS_MAPPED
             <=> MappingOf(last.ret) \in maps

\* C14 witness: os_calloc has returned the heap block that the operation
\* before it released.
C14_Witness ==
    /\ Calloced /\ mem[Hdr(last.ret)].status = STATUS_ALLOC
    /\ last.before.op = "free" /\ last.before.ptr = last.ret

\* The operation l records, started in the current state, is bound for the
\* heap: an os_malloc or os_realloc(NULL, ..) of 1 .. BRK_LIMIT - 1 bytes, an
\* os_calloc of less than min(page size, 4080) bytes, or an os_realloc of a
\* MAPPED block to 1 .. BRK_LIMIT - 1 bytes.
HeapBound(l) ==
    \/ l.op = "malloc" /\ l.size > 0 /\ l.size < BRK_LIMIT
    \/ l.op = "calloc" /\ l.nmemb * l.size > 0
                       /\ l.nmemb * l.size < Min(PageSize, PAGE_CAP)
    \/ l.op = "realloc" /\ l.ptr = NULL /\ l.size > 0 /\ l.size < BRK_LIMIT
    \/ l.op = "realloc" /\ l.ptr # NULL /\ l.size > 0 /\ l.size < BRK_LIMIT
                        /\ l.old.status = STATUS_MAPPED

\* C15, for one step: heap_preallocation is called in a step if and only if
\* the step is the first request bound for the heap, and then once; it puts
\* one FREE block of BRK_LIMIT - header bytes at the old break and the break
\* BRK_LIMIT higher.
C15_Step ==
    /\ npre' = npre + (IF npre = 0 /\ HeapBound(last') THEN 1 ELSE 0)
    /\ npre' > npre =>
          /\ last'.pool = [nodes |-> <<[addr |-> brk, size |-> BRK_LIMIT - META_DATA_SIZE,
                                        status |-> STATUS_FREE]>>,
                           brk |-> brk + BRK_LIMIT]
          /\ brk' >= brk + BRK_LIMIT
    /\ (npre > 0) = (mem[block_head_brk].size # 0)

\* C15: the heap is preallocated exactly once, by the first request bound
\* for the heap.
C15_PreallocOnce == [][C15_Step]_vars

\* C15 witness: the heap exists, preallocated by an earlier operation, and a
\* request bound for the heap has been served without a preallocation after
\* a mapping had been made.
C15_Witness ==
    /\ npre = 1 /\ last.pool.nodes = <<>> /\ last.brk0 > HeapStart
    /\ last.op = "calloc" /\ Calloced /\ mem[Hdr(last.ret)].status = STATUS_ALLOC
    /\ maps # {}

\* The last operation entered search_best_fit.
Searched == Len(last.search) > 0

\* The aligned size the last operation asked the heap for.
AskedAligned ==
    SIZE_ALIGN(IF last.op = "calloc" THEN last.nmemb * last.size ELSE last.size)

\* The places in the heap list, as the search found it, of the FREE blocks
\* of at least a bytes.
Fits(a) ==
    {i \in 1..Len(last.cand.nodes) :
        last.cand.nodes[i].status = STATUS_FREE /\ last.cand.nodes[i].size >= a}

\* The place of the best fit: no fitting block is smaller, none as small
\* comes earlier.
IsBest(i, a) ==
    /\ i \in Fits(a)
    /\ \A j \in Fits(a) :
          \/ last.cand.nodes[j].size > last.cand.nodes[i].size
          \/ last.cand.nodes[j].size = last.cand.nodes[i].size /\ j >= i

\* C16: a search that finds FREE blocks of at least the aligned size a
\* returns the smallest of them, the earliest among equals; the block keeps
\* its address and its place in the list, is ALLOCATED with stored size a,
\* and the break stays.  A search that finds none is followed by an
\* extension of the heap at its tail.
C16_BestFit ==
    Searched =>
        IF Fits(AskedAligned) # {}
        THEN \E i \in Fits(AskedAligned) :
                /\ IsBest(i, AskedAligned)
                /\ last.ret = last.cand.nodes[i].addr + META_DATA_SIZE
                /\ mem[Hdr(last.ret)].status = STATUS_ALLOC
                /\ StoredSize(last.ret) = AskedAligned
                /\ Len(Nodes) >= i
                /\ \A k \in 1..i : Nodes[k] = last.cand.nodes[k].addr
                /\ brk = last.cand.brk
        ELSE /\ brk > last.cand.brk
             /\ last.ret # NULL
             /\ mem[Hdr(last.ret)].status = STATUS_ALLOC
             /\ StoredSize(last.ret) = AskedAligned
             /\ mem[Hdr(last.ret)].next = block_head_brk
             /\ last.ret + AskedAligned = brk

\* C16 witness: the search found two fitting FREE blocks of the same size
\* and has returned the first.
C16_Witness ==
    /\ Searched
    /\ \E i \in Fits(AskedAligned) : \E j \in Fits(AskedAligned) :
          /\ i < j /\ last.cand.nodes[i].size = last.cand.nodes[j].size
          /\ last.ret = last.cand.nodes[i].addr + META_DATA_SIZE

\* The place of the block at addr in a list of nodes.
PlaceOf(nodes, addr) == CHOOSE i \in 1..Len(nodes) : nodes[i].addr = addr

\* A list of nodes with one more node behind place i.
InsertAfter(nodes, i, node) ==
    [k \in 1..(Len(nodes) + 1) |->
        IF k <= i THEN nodes[k] ELSE IF k = i + 1 THEN node ELSE nodes[k - 1]]

\* C17: when a block has been cut down to its used size, the gap being the
\* distance from the end of the used payload to the next header or to the
\* break: a gap above one header becomes one new FREE block of gap - header
\* bytes linked right behind the block; with a gap of at most one header the
\* heap list stays as it is.
C17_SplitRule ==
    last.cut.n > 0 =>
        /\ last.cut.n = 1
        /\ \E i \in 1..Len(last.cut.nodes) : last.cut.nodes[i].addr = last.cut.addr
        /\ last.cut.start
             = last.cut.addr + META_DATA_SIZE
               + last.cut.nodes[PlaceOf(last.cut.nodes, last.cut.addr)].size
        /\ last.cut.gap >= 0
        /\ last.cut.after
             = IF last.cut.gap > META_DATA_SIZE
               THEN InsertAfter(last.cut.nodes, PlaceOf(last.cut.nodes, last.cut.addr),
                                [addr |-> last.cut.start,
                                 size |-> last.cut.gap - META_DATA_SIZE,
                                 status |-> STATUS_FREE])
               ELSE last.cut.nodes

\* C17 witness: a block has been cut down with a gap of exactly one header
\* behind it, before another block.
C17_Witness ==
    /\ last.cut.n > 0 /\ last.cut.gap = META_DATA_SIZE
    /\ PlaceOf(last.cut.nodes, last.cut.addr) < Len(last.cut.nodes)

\* The elements of a sequence.
Range(seq) == {seq[i] : i \in 1..Len(seq)}

\* The elements of a set of at most one element, as a sequence.
SeqOf(S) == IF S = {} THEN <<>> ELSE <<CHOOSE x \in S : TRUE>>

\* The sequence seq without the elements outside S.
Restrict(seq, S) == SelectSeq(seq, LAMBDA h : h \in S)

\* C18: the mapped list walked from its sentinel holds exactly the live
\* MAPPED blocks, each once, in the order they were made: the last operation
\* left the blocks that stay live in their order and put a new one behind
\* them.
C18_MappedListInOrder ==
    ~dead =>
        /\ Range(MappedList(mem)) = LiveMappedHdrs
        /\ Len(MappedList(mem)) = Cardinality(LiveMappedHdrs)
        /\ MappedList(mem)
             = Restrict(last.mlist0, LiveMappedHdrs) \o SeqOf(LiveMappedHdrs \ last.mapped0)

\* The last operation was an os_realloc that grew a block of the heap to a
\* size bound for the heap.
GrownOnHeap ==
    /\ Resized /\ last.old.status = STATUS_ALLOC /\ last.size < BRK_LIMIT
    /\ SIZE_ALIGN(last.size) > last.old.size

\* The block the last operation was given is the last of the heap list once
\* the FREE blocks behind it are absorbed, and the space up to the break
\* cannot hold the new aligned size.
LastAndShort ==
    /\ \A k \in 1..Len(last.snap.nodes) :
          last.snap.nodes[k].addr > Hdr(last.ptr)
              => last.snap.nodes[k].status = STATUS_FREE
    /\ last.snap.brk - last.ptr < SIZE_ALIGN(last.size)

\* C19: a resize that grows a heap block which forward coalescing leaves too
\* small and last in the list (with or without FREE successors or slack
\* absorbed) moves the break by the missing bytes, grows the block in place
\* to the aligned size and returns the pointer it was given; no block is
\* made.
C19_TailGrowth ==
    (GrownOnHeap /\ LastAndShort) =>
        /\ last.ret = last.ptr
        /\ brk = last.brk0 + (SIZE_ALIGN(last.size) - (last.snap.brk - last.ptr))
        /\ StoredSize(last.ptr) = SIZE_ALIGN(last.size)
        /\ mem[Hdr(last.ptr)].status = STATUS_ALLOC
        /\ mem[Hdr(last.ptr)].next = block_head_brk
        /\ Len(last.search) = 0

\* C20: the heap list ascends in address from the first block, and every
\* block, FREE or ALLOCATED, ends with its stored size at or before the next
\* header, the last at or before the break.
C20_Layout ==
    /\ \A i \in 1..Len(Nodes) : Nodes[i] >= HeapStart
    /\ \A i \in 1..(Len(Nodes) - 1) :
          /\ Nodes[i] < Nodes[i + 1]
          /\ Nodes[i] + META_DATA_SIZE + mem[Nodes[i]].size <= Nodes[i + 1]
    /\ Len(Nodes) > 0 =>
          Nodes[Len(Nodes)] + META_DATA_SIZE + mem[Nodes[Len(Nodes)]].size <= brk

\* C20 witness: in a heap of at least three blocks an operation has started
\* with two FREE neighbours to coalesce and has extended the heap at its tail.
C20_Witness ==
    /\ Len(Nodes) >= 3 /\ brk > last.brk0 /\ last.brk0 > HeapStart
    /\ AdjacentFree(last.pre)

=============================================================================
